---- MODULE Spec2Model ----
(***************************************************************************)
(* Model of the movies request handler                                     *)
(* (src/api-project/lambda/movies/index.ts).                               *)
(*                                                                         *)
(* The DynamoDB table is the variable store, the module-level array        *)
(* sampleMovies is kept once per handler process, and every `await` of the *)
(* handler is a point where other requests and the store may take steps.   *)
(* A handler process serves one request at a time; the un-awaited          *)
(* addMovieToDB of the translation branch lives on in the variable puts.   *)
(***************************************************************************)
EXTENDS Integers, Sequences, FiniteSets, TLC

\* ------------------------------------------------------------------ bounds
MaxRequests == 2
NumProcs == 2

Procs == 1..NumProcs

\* ------------------------------------------------------- values and helpers
Undef == "<undefined>"
Null == [null |-> TRUE]
EmptyMap == [x \in {} |-> ""]

\* a JSON number where the record type says string (description: 5); it is
\* truthy and has no trim method
NotAString == "<number>"

\* JS truthiness of a string-or-undefined value
Truthy(s) == s # Undef /\ s # ""

\* String.prototype.trim on the strings of the model: whitespace-only
\* strings become '', the others have no surrounding whitespace
Trim(s) == IF s \in {"", " ", "  "} THEN "" ELSE s

\* obj[k] for a string-valued attribute, undefined when the key is absent
Attr(obj, k) == IF k \in DOMAIN obj THEN obj[k] ELSE Undef

\* { ...a, ...b }
Spread(a, b) == b @@ a

Last(s) == s[Len(s)]

\* ------------------------------------------------------------- sample data
MatrixDesc == "zh:matrix"
ShawshankDesc == "zh:shawshank"

sampleMoviesInit ==
  << [id |-> "movie1", category |-> "action", title |-> "The Matrix",
      director |-> "Wachowski", year |-> 1999, rating |-> 87,
      description |-> MatrixDesc, isAvailable |-> TRUE,
      translations |-> [en |-> "en:matrix"]],
     [id |-> "movie2", category |-> "drama", title |-> "Shawshank",
      director |-> "Darabont", year |-> 1994, rating |-> 93,
      description |-> ShawshankDesc, isAvailable |-> TRUE,
      translations |-> [en |-> "en:shawshank"]] >>

\* ------------------------------------------------------------- translator
\* AWS Translate as a text-in/text-out function of (Text, TargetLanguageCode)
TranslatedText(text, lang) ==
  CASE text = "Hello" /\ lang = "fr" -> "Bonjour"
    [] text = "Hello" /\ lang = "en" -> "Hello"
    [] text = "Hola" /\ lang = "fr" -> "Salut"
    [] text = "Hola" /\ lang = "en" -> "Hi"
    [] text = MatrixDesc /\ lang = "fr" -> "fr:matrix"
    [] text = MatrixDesc /\ lang = "en" -> "en:matrix"
    [] text = ShawshankDesc /\ lang = "fr" -> "fr:shawshank"
    [] text = ShawshankDesc /\ lang = "en" -> "en:shawshank"
    [] OTHER -> "xx:text"

\* ------------------------------------------------------------------ inputs
NoParams == EmptyMap

TranslationPath(c, i) == <<"movies", c, i, "translation">>

Event(method, path, pathParameters, query, body) ==
  [httpMethod |-> method, path |-> path, pathParameters |-> pathParameters,
   queryStringParameters |-> query, body |-> body]

\* request bodies: the text of a JSON object, a text that is not JSON, or
\* no body (Null)
Json(obj) == [json |-> obj]
NotJson == [text |-> "{"]

\* GET /movies/{category}/{id}/translation, with and without ?language=fr
TranslationEvents ==
  { Event("GET", TranslationPath(k[1], k[2]),
          [category |-> k[1], id |-> k[2]], q, Null)
      : k \in {<<"action", "m1">>, <<"action", "movie1">>},
        q \in {NoParams, [language |-> "fr"]} }

UpdatePath(c, i) == <<"movies", c, i>>

UpdateBodies ==
  { Json([description |-> "Hola"]),
    Json([description |-> " "]),
    Json([title |-> "T2", isAvailable |-> FALSE, id |-> "m9"]),
    Json([unknown |-> "x", category |-> "drama"]),
    Json([translations |-> [fr |-> "Salut"]]),
    Json([translations |-> [fr |-> ""]]) }

\* PUT /movies/{category}/{id}
UpdateEvents ==
  { Event("PUT", UpdatePath("action", "m1"),
          [category |-> "action", id |-> "m1"], NoParams, b)
      : b \in UpdateBodies \cup {Null} }
  \cup
  { Event("PUT", UpdatePath("action", "movie1"),
          [category |-> "action", id |-> "movie1"], NoParams,
          Json([title |-> "T2"])) }

\* POST /movies
CreateEvents ==
  { Event("POST", <<"movies">>, NoParams, NoParams,
          Json([title |-> "T3", category |-> "action",
                description |-> "Hello"])),
    Event("POST", <<"movies">>, NoParams, NoParams,
          Json([title |-> "T3", category |-> "action"])),
    Event("POST", <<"movies">>, NoParams, NoParams,
          Json([title |-> "", category |-> "action",
                description |-> "Hello"])),
    Event("POST", <<"movies">>, NoParams, NoParams, NotJson) }

\* the methods the API declares with apiKeyRequired: true
\* (POST /movies and PUT /movies/{category}/{id})
apiKeyRequired(method, path) ==
  \/ method = "POST" /\ path = <<"movies">>
  \/ method = "PUT" /\ Len(path) = 3 /\ path[1] = "movies"

Events == TranslationEvents \cup UpdateEvents \cup CreateEvents

\* The contents the table may have when the first request arrives
StoredM1(translations) ==
  [category |-> "action", id |-> "m1", title |-> "T1", director |-> "D1",
   year |-> 2020, rating |-> 50, description |-> "Hello",
   isAvailable |-> TRUE, translations |-> translations]

InitStores ==
  { EmptyMap,
    (<<"action", "m1">> :> StoredM1(EmptyMap)),
    (<<"action", "m1">> :> StoredM1([fr |-> "Bonjour"])) }

\* GET /movies with its query string
GetEvent(query) == Event("GET", <<"movies">>, NoParams, query, Null)

\* GET /movies: lists (all, by category, with filters) and lookups by id
ReadEvents ==
  { GetEvent(q) : q \in
      { NoParams,
        [category |-> "action"],
        [category |-> "drama"],
        [category |-> "scifi"],
        [year |-> "2020"],
        [category |-> "drama", isAvailable |-> "true"],
        [director |-> "D1"],
        [id |-> "m1"],
        [id |-> "movie1"],
        [id |-> "zz"] } }
  \cup
  { Event("GET", <<"movies", "test-translate">>, NoParams, NoParams, Null) }

\* a second record with id m1, in another category, and one more drama
StoredDramaM1 ==
  [category |-> "drama", id |-> "m1", title |-> "T4", director |-> "D2",
   year |-> 1999, rating |-> 70, description |-> "Hola",
   isAvailable |-> FALSE, translations |-> EmptyMap]

StoredD1 ==
  [category |-> "drama", id |-> "d1", title |-> "T5", director |-> "D1",
   year |-> 2020, rating |-> 60, description |-> "Hello",
   isAvailable |-> TRUE, translations |-> EmptyMap]

\* the item that PUT /movies/action/movie1 {"title":"T2"} leaves in a table
\* that held nothing under that key
UpsertedMovie1 == [category |-> "action", id |-> "movie1", title |-> "T2"]

\* The contents of the table that the reads are checked on
ReadStores ==
  { EmptyMap,
    (<<"action", "m1">> :> StoredM1(EmptyMap)),
    (<<"action", "m1">> :> StoredM1(EmptyMap))
      @@ (<<"drama", "m1">> :> StoredDramaM1)
      @@ (<<"drama", "d1">> :> StoredD1),
    (<<"action", "m1">> :> StoredM1(EmptyMap))
      @@ (<<"action", "movie1">> :> UpsertedMovie1) }

\* Requests of every kind the handler tells apart: each method, complete,
\* incomplete and malformed, and an Update that stores a description that
\* is not a string
ApiEvents ==
  { Event("GET", TranslationPath("action", "m1"),
          [category |-> "action", id |-> "m1"], NoParams, Null),
    Event("GET", TranslationPath("action", "movie1"),
          [category |-> "action", id |-> "movie1"], [language |-> "fr"], Null),
    Event("GET", <<"translation">>, NoParams, NoParams, Null),
    Event("GET", <<"movies", "action", "translation">>,
          [category |-> "action"], NoParams, Null),
    Event("PUT", UpdatePath("action", "m1"),
          [category |-> "action", id |-> "m1"], NoParams,
          Json([description |-> NotAString])),
    Event("PUT", UpdatePath("action", "m1"),
          [category |-> "action", id |-> "m1"], NoParams, NotJson),
    Event("PUT", UpdatePath("action", "movie1"),
          [category |-> "action", id |-> "movie1"], NoParams,
          Json([title |-> "T2"])),
    Event("PUT", <<"movies">>, NoParams, NoParams, Json([title |-> "T2"])),
    Event("PUT", <<"movies", "action">>, [category |-> "action"], NoParams,
          NotJson),
    Event("POST", <<"movies">>, NoParams, NoParams,
          Json([title |-> "T3", category |-> "action",
                description |-> "Hello"])),
    Event("POST", <<"movies">>, NoParams, NoParams, NotJson),
    GetEvent(NoParams),
    GetEvent([id |-> "m1"]),
    GetEvent([id |-> "movie1"]),
    GetEvent([category |-> "drama", id |-> "m1"]),
    Event("GET", <<"movies", "test-translate">>, NoParams, NoParams, Null),
    Event("OPTIONS", <<"movies">>, NoParams, NoParams, Null),
    Event("DELETE", UpdatePath("action", "m1"),
          [category |-> "action", id |-> "m1"], NoParams, Null) }

\* POST /movies with the required fields and every choice of the optional
\* director, rating and isAvailable
DefaultsBodies ==
  { [title |-> "T3", category |-> "action", description |-> "Hello"]
      @@ d @@ r @@ a :
      d \in {EmptyMap, [director |-> "D3"], [director |-> ""]},
      r \in {EmptyMap, [rating |-> 80]},
      a \in {EmptyMap, [isAvailable |-> TRUE], [isAvailable |-> FALSE]} }

DefaultsEvents ==
  { Event("POST", <<"movies">>, NoParams, NoParams, Json(b)) :
      b \in DefaultsBodies }

\* Limit of the scan of getMoviesFromDB
ScanLimit == 50

\* the n-th record of a table filled with records of one category
BulkMovie(n) ==
  [category |-> "bulk", id |-> "b" \o ToString(n), title |-> "T",
   director |-> "D1", year |-> 2020, rating |-> 50, description |-> "Hello",
   isAvailable |-> TRUE, translations |-> EmptyMap]

BulkStore(size) ==
  [k \in {<<"bulk", "b" \o ToString(n)>> : n \in 1..size} |->
     BulkMovie(CHOOSE n \in 1..size : k[2] = "b" \o ToString(n))]

\* tables with as many records as a scan returns at most, and with one more
BulkStores == {BulkStore(ScanLimit), BulkStore(ScanLimit + 1)}

\* GET /movies and GET /movies?category=bulk
PageEvents == {GetEvent(NoParams), GetEvent([category |-> "bulk"])}

\* the texts and languages translateText is called with
HelperTexts == {Undef, "", " ", "Hello", "Hola", MatrixDesc}
HelperLanguages == {"en", "fr"}

\* how the call of the translation service ends: with a result, or with an
\* error that has a code and a message, or lacks them
ServiceOutcomes ==
  { [ok |-> TRUE, code |-> Undef, message |-> Undef],
    [ok |-> FALSE, code |-> "ThrottlingException",
     message |-> "Rate exceeded"],
    [ok |-> FALSE, code |-> Undef, message |-> "socket hang up"],
    [ok |-> FALSE, code |-> "UnknownError", message |-> ""],
    [ok |-> FALSE, code |-> Undef, message |-> Undef] }

\* --------------------------------------------------------------- variables
VARIABLES
  TABLE_NAME,    \* process.env.TABLE_NAME || ''
  store,         \* the table: <<category, id>> -> item
  sampleMovies,  \* per process: the module-level sampleMovies array
  pc,            \* per process: the await the handler is suspended at
  event,         \* per process: the event being handled
  rid,           \* per process: number of the request being handled
  local,         \* per process: the handler's local variables
  log,           \* per process: the external calls made for the request
  resp,          \* per process: the APIGatewayProxyResult returned
  puts,          \* the un-awaited puts issued by the translation branch
  lastWrite,     \* the write the table applied last
  nreq,          \* number of requests received so far
  uuids          \* number of ids uuidv4 has generated

vars == <<TABLE_NAME, store, sampleMovies, pc, event, rid, local, log, resp,
          puts, lastWrite, nreq, uuids>>

NoLocal == [none |-> TRUE]
NoWrite == [op |-> "none"]

Init ==
  /\ \/ TABLE_NAME = "" /\ store = EmptyMap
     \/ TABLE_NAME = "MoviesTable" /\ store \in InitStores
  /\ sampleMovies = [p \in Procs |-> sampleMoviesInit]
  /\ pc = [p \in Procs |-> "idle"]
  /\ event = [p \in Procs |-> Null]
  /\ rid = [p \in Procs |-> 0]
  /\ local = [p \in Procs |-> NoLocal]
  /\ log = [p \in Procs |-> <<>>]
  /\ resp = [p \in Procs |-> Null]
  /\ puts = {}
  /\ lastWrite = NoWrite
  /\ nreq = 0
  /\ uuids = 0

\* the same processes in front of a table with more records
ReadInit ==
  /\ \/ TABLE_NAME = "" /\ store = EmptyMap
     \/ TABLE_NAME = "MoviesTable" /\ store \in ReadStores
  /\ sampleMovies = [p \in Procs |-> sampleMoviesInit]
  /\ pc = [p \in Procs |-> "idle"]
  /\ event = [p \in Procs |-> Null]
  /\ rid = [p \in Procs |-> 0]
  /\ local = [p \in Procs |-> NoLocal]
  /\ log = [p \in Procs |-> <<>>]
  /\ resp = [p \in Procs |-> Null]
  /\ puts = {}
  /\ lastWrite = NoWrite
  /\ nreq = 0
  /\ uuids = 0

\* the same processes in front of a table with many records
PageInit ==
  /\ TABLE_NAME = "MoviesTable" /\ store \in BulkStores
  /\ sampleMovies = [p \in Procs |-> sampleMoviesInit]
  /\ pc = [p \in Procs |-> "idle"]
  /\ event = [p \in Procs |-> Null]
  /\ rid = [p \in Procs |-> 0]
  /\ local = [p \in Procs |-> NoLocal]
  /\ log = [p \in Procs |-> <<>>]
  /\ resp = [p \in Procs |-> Null]
  /\ puts = {}
  /\ lastWrite = NoWrite
  /\ nreq = 0
  /\ uuids = 0

\* each process is about to call translateText(text, targetLanguage)
HelperInit ==
  /\ TABLE_NAME = "MoviesTable" /\ store = EmptyMap
  /\ sampleMovies = [p \in Procs |-> sampleMoviesInit]
  /\ pc = [p \in Procs |-> "idle"]
  /\ event = [p \in Procs |-> Null]
  /\ rid = [p \in Procs |-> 0]
  /\ local \in [Procs -> [text : HelperTexts,
                          targetLanguage : HelperLanguages]]
  /\ log = [p \in Procs |-> <<>>]
  /\ resp = [p \in Procs |-> Null]
  /\ puts = {}
  /\ lastWrite = NoWrite
  /\ nreq = 0
  /\ uuids = 0

\* ----------------------------------------------------------- store adapter
\* sampleMovies.find(m => m.id === id && m.category === category): the index
\* of the first match, 0 when there is none
FindSample(samples, category, id) ==
  LET hits == {i \in 1..Len(samples) :
                 samples[i].id = id /\ samples[i].category = category}
  IN IF hits = {} THEN 0 ELSE CHOOSE i \in hits : \A j \in hits : i <= j

\* what getMovieFromDB may return: the item read from the table, or the
\* element of sampleMovies itself (ref is its index), or null (Null)
SampleResult(samples, category, id) ==
  LET i == FindSample(samples, category, id)
  IN IF i = 0 THEN Null ELSE [ref |-> i, val |-> samples[i]]

getMovieFromDB(table, tab, samples, category, id, ok) ==
  IF table = "" THEN SampleResult(samples, category, id)
  ELSE IF ok /\ <<category, id>> \in DOMAIN tab
       THEN [ref |-> 0, val |-> tab[<<category, id>>]]
       ELSE SampleResult(samples, category, id)

\* the item the table holds under (category, id), Null when it holds none
Stored(tab, category, id) ==
  IF <<category, id>> \in DOMAIN tab THEN tab[<<category, id>>] ELSE Null

\* sampleMovies.find(m => m.id === id) || null
SampleByIdResult(samples, id) ==
  LET hits == {i \in 1..Len(samples) : samples[i].id = id}
  IN IF hits = {} THEN Null
     ELSE LET i == CHOOSE i \in hits : \A j \in hits : i <= j
          IN [ref |-> i, val |-> samples[i]]

\* what getMovieByIdFromDB may return (lines 129-156): Items[0] of a scan
\* filtered on id, any of the matching items since the order of a scan is
\* the table's; the sample record with that id, or null, when the scan
\* fails or matches nothing
getMovieByIdFromDB(table, tab, samples, id, ok) ==
  LET matches == {k \in DOMAIN tab : tab[k].id = id}
  IN IF table = "" \/ ~ok \/ matches = {}
     THEN {SampleByIdResult(samples, id)}
     ELSE {[ref |-> 0, val |-> tab[k]] : k \in matches}

\* the ways of leaving n elements out of set S
RECURSIVE Without(_, _)
Without(S, n) ==
  IF n = 0 THEN {S} ELSE UNION {Without(S \ {k}, n - 1) : k \in S}

\* variant: the scan has no Limit
ScanKeys_all(tab) == {DOMAIN tab}

\* the keys a scan with Limit: ScanLimit may return: all of them when the
\* table has no more than ScanLimit items, else ScanLimit of them, those
\* that come first in the order of the table
ScanKeys(tab) ==
  IF Cardinality(DOMAIN tab) <= ScanLimit THEN {DOMAIN tab}
  ELSE Without(DOMAIN tab, Cardinality(DOMAIN tab) - ScanLimit)

\* category ? sampleMovies.filter(m => m.category === category) : sampleMovies
SampleList(samples, category) ==
  {samples[i] : i \in {i \in 1..Len(samples) :
                         ~Truthy(category) \/ samples[i].category = category}}

\* getMoviesFromDB (lines 159-199): the items of the query on the category,
\* or of the scan (scanned: the keys it returned); the sample list when the
\* call fails or returns no item
getMoviesFromDB(table, tab, samples, category, ok, scanned) ==
  LET items == IF Truthy(category)
               THEN {tab[k] : k \in {k \in DOMAIN tab : k[1] = category}}
               ELSE {tab[k] : k \in scanned}
  IN IF table = "" \/ ~ok \/ items = {}
     THEN SampleList(samples, category)
     ELSE items

\* variant: a conditional put that keeps an item that already exists
PutItem_ifAbsent(tab, item) == tab @@ (<<item.category, item.id>> :> item)

\* dynamoDB.put: the item replaces whatever the table holds under its key
PutItem(tab, item) == (<<item.category, item.id>> :> item) @@ tab

\* ------------------------------------------------------------ the handler
Idle(p) == pc[p] \in {"idle", "done"}

Response(status, body) == [statusCode |-> status, body |-> body]

\* path.endsWith('/translation')
IsTranslationPath(path) == Len(path) >= 1 /\ Last(path) = "translation"

\* Handler processes are started on demand: process p takes its first
\* request only when the processes before it have already taken one.
Started(p) == IF p = 1 THEN TRUE ELSE rid[p - 1] # 0

Begin(p, e) ==
  /\ Idle(p)
  /\ Started(p)
  /\ nreq < MaxRequests
  /\ nreq' = nreq + 1
  /\ rid' = [rid EXCEPT ![p] = nreq + 1]
  /\ event' = [event EXCEPT ![p] = e]

Finish(p, r) ==
  /\ pc' = [pc EXCEPT ![p] = "done"]
  /\ resp' = [resp EXCEPT ![p] = r]

\* category and id of a translation request (lines 328-344)
TranslationKey(e) ==
  LET id0 == Attr(e.pathParameters, "id")
      cat0 == Attr(e.pathParameters, "category")
  IN IF (~Truthy(id0) \/ ~Truthy(cat0))
        /\ Len(e.path) >= 4 /\ e.path[1] = "movies"
     THEN [category |-> e.path[2], id |-> e.path[3]]
     ELSE [category |-> cat0, id |-> id0]

\* variant: the default language is 'fr'
TranslationLanguage_defaultFr(e) ==
  LET l == Attr(e.queryStringParameters, "language")
  IN IF Truthy(l) THEN l ELSE "fr"

\* event.queryStringParameters?.language || 'en'
TranslationLanguage(e) ==
  LET l == Attr(e.queryStringParameters, "language")
  IN IF Truthy(l) THEN l ELSE "en"

\* The requests for (category, id, language) that have been answered with a
\* fresh translation and whose response is the last one of their process:
\* a request that starts now is issued after each of them.
Answered(category, id, language) ==
  { [rid |-> rid[q],
     text |-> resp[q].body.movie.translated_description] : q \in {q \in Procs :
      /\ pc[q] = "done"
      /\ "language" \in DOMAIN local[q]
      /\ local[q].category = category /\ local[q].id = id
      /\ local[q].language = language
      /\ resp[q].statusCode = 200
      /\ resp[q].body.message = "Translation successful"} }

\* GET .../translation up to the await of getMovieFromDB (lines 324-359)
StartTranslation(p, e) ==
  /\ e.httpMethod = "GET" /\ IsTranslationPath(e.path)
  /\ Begin(p, e)
  /\ LET key == TranslationKey(e)
         language == TranslationLanguage(e)
     IN IF ~Truthy(key.category) \/ ~Truthy(key.id)
        THEN /\ Finish(p, Response(400,
                 [message |-> "Invalid translation request path, missing category or ID parameter"]))
             /\ local' = [local EXCEPT ![p] = NoLocal]
        ELSE /\ pc' = [pc EXCEPT ![p] = "tr_get"]
             /\ resp' = [resp EXCEPT ![p] = Null]
             /\ local' = [local EXCEPT ![p] =
                  [category |-> key.category, id |-> key.id,
                   language |-> language,
                   after |-> Answered(key.category, key.id, language)]]
  /\ log' = [log EXCEPT ![p] = <<>>]
  /\ UNCHANGED <<TABLE_NAME, store, sampleMovies, puts, lastWrite, uuids>>

\* movie.translations && movie.translations[language]
CachedTranslation(movie, language) ==
  IF "translations" \in DOMAIN movie
  THEN Attr(movie.translations, language)
  ELSE Undef

\* variant: the lookup reads translations['en'] whatever the language
HasCachedTranslation_en(movie, language) ==
  Truthy(CachedTranslation(movie, "en"))

HasCachedTranslation(movie, language) ==
  Truthy(CachedTranslation(movie, language))

\* movie.description.trim is not a function: the description is truthy and
\* not a string, and line 371 throws a TypeError
DescriptionThrows(movie) == Attr(movie, "description") = NotAString

\* !movie.description || movie.description.trim() === ''
DescriptionIsEmpty(movie) ==
  \/ ~Truthy(Attr(movie, "description"))
  \/ Trim(movie.description) = ""

WithTranslated(movie, text) == Spread(movie, [translated_description |-> text])

\* variant: the cache is consulted before the description is examined
TranslationBranch_cacheFirst(got, language) ==
  IF got = Null THEN "notFound"
  ELSE IF HasCachedTranslation(got.val, language) THEN "cached"
  ELSE IF DescriptionIsEmpty(got.val) THEN "empty"
  ELSE "translate"

\* the branch the handler takes once getMovieFromDB has returned
\* (lines 362, 371, 386, 401)
TranslationBranch(got, language) ==
  IF got = Null THEN "notFound"
  ELSE IF DescriptionThrows(got.val) THEN "threw"
  ELSE IF DescriptionIsEmpty(got.val) THEN "empty"
  ELSE IF HasCachedTranslation(got.val, language) THEN "cached"
  ELSE "translate"

\* variant: the error leaves the handler
CatchAll_rethrow(p, samples) ==
  /\ pc' = [pc EXCEPT ![p] = "crashed"]
  /\ resp' = [resp EXCEPT ![p] = Null]

\* the catch of the handler's outer try (lines 717-729)
CatchAll(p, samples) ==
  Finish(p, Response(200,
    [message |-> "An error occurred during request processing, returning sample data",
     movies |-> {samples[i] : i \in 1..Len(samples)}]))

\* getMovieFromDB returned: lines 359-422, up to the await of translateText
TranslationGet(p) ==
  /\ pc[p] = "tr_get"
  /\ \E ok \in BOOLEAN :
       LET l == local[p]
           got == getMovieFromDB(TABLE_NAME, store, sampleMovies[p],
                                 l.category, l.id, ok)
           movie == got.val
           branch == TranslationBranch(got, l.language)
           read == [call |-> "get", table |-> TABLE_NAME # "", ok |-> ok]
       IN /\ log' = [log EXCEPT ![p] =
                  IF branch = "translate"
                  THEN <<read, [call |-> "translateText",
                                Text |-> movie.description,
                                SourceLanguageCode |-> "auto",
                                TargetLanguageCode |-> l.language]>>
                  ELSE <<read>>]
          /\ local' = [local EXCEPT ![p] =
                  IF got = Null THEN l
                  ELSE l @@ [movie |-> got, read |-> got]]
          /\ CASE branch = "notFound" ->
                    Finish(p, Response(404, [message |-> "Movie not found"]))
               [] branch = "threw" -> CatchAll(p, sampleMovies[p])
               [] branch = "empty" ->
                    Finish(p, Response(200,
                      [message |-> "Movie description is empty, no translation needed",
                       movie |-> WithTranslated(movie, "")]))
               [] branch = "cached" ->
                    Finish(p, Response(200,
                      [message |-> "Using cached translation",
                       movie |-> WithTranslated(movie,
                                   CachedTranslation(movie, l.language))]))
               [] branch = "translate" ->
                    /\ pc' = [pc EXCEPT ![p] = "tr_translate"]
                    /\ UNCHANGED resp
  /\ UNCHANGED <<TABLE_NAME, store, sampleMovies, event, rid, puts,
                 lastWrite, nreq, uuids>>

\* variant: the new text is stored under 'en' whatever the language
MergeTranslation_wrongKey(movie, language, text) ==
  LET old == IF "translations" \in DOMAIN movie
             THEN movie.translations ELSE EmptyMap
  IN [translations |-> ("en" :> text) @@ old] @@ movie

\* movie.translations[language] = translatedText, after the
\* initialisation of a missing map (lines 429-435)
MergeTranslation(movie, language, text) ==
  LET old == IF "translations" \in DOMAIN movie
             THEN movie.translations ELSE EmptyMap
  IN [translations |-> (language :> text) @@ old] @@ movie

\* variant: the put is issued with the record as it was before the merge
addMovieToDB_send_unmerged(table, owner, request, movie, language, ref, cached) ==
  IF table = "" THEN {}
  ELSE {[owner |-> owner, rid |-> request,
         item |-> [movie EXCEPT !.translations =
                     [l \in (DOMAIN @) \ {language} |-> @[l]]],
         language |-> language, ref |-> ref, cached |-> cached,
         status |-> "inflight"]}

\* addMovieToDB called without await: the put request it sends (lines 73-83);
\* language, ref and cached record what the request asked for, where its
\* movie came from (0: the table) and what its read found under
\* translations[language]
addMovieToDB_send(table, owner, request, movie, language, ref, cached) ==
  IF table = "" THEN {}
  ELSE {[owner |-> owner, rid |-> request, item |-> movie,
         language |-> language, ref |-> ref, cached |-> cached,
         status |-> "inflight"]}

\* variant: the response reports an error when the put was not sent
TranslationResponse_checked(movie, text, sent) ==
  IF sent
  THEN Response(200, [message |-> "Translation successful",
                      movie |-> WithTranslated(movie, text)])
  ELSE Response(500, [message |-> "Translation not saved"])

\* the response of lines 446-456
TranslationResponse(movie, text, sent) ==
  Response(200, [message |-> "Translation successful",
                 movie |-> WithTranslated(movie, text)])

\* translateText resolved: lines 422-456
TranslationSucceeds(p) ==
  /\ pc[p] = "tr_translate"
  /\ LET l == local[p]
         call == Last(log[p])
         text == TranslatedText(call.Text, call.TargetLanguageCode)
         movie == MergeTranslation(l.movie.val, l.language, text)
         sent == addMovieToDB_send(TABLE_NAME, p, rid[p], movie, l.language,
                                   l.read.ref,
                                   CachedTranslation(l.read.val, l.language))
     IN /\ sampleMovies' =
             IF l.movie.ref = 0 THEN sampleMovies
             ELSE [sampleMovies EXCEPT ![p][l.movie.ref] = movie]
        /\ local' = [local EXCEPT ![p].movie.val = movie]
        /\ puts' = puts \cup sent
        /\ log' = [log EXCEPT ![p] = @ \o
                <<[call |-> "translated", ok |-> TRUE, text |-> text],
                  [call |-> "addMovieToDB", sent |-> sent # {},
                   item |-> movie]>>]
        /\ Finish(p, TranslationResponse(movie, text, sent # {}))
  /\ UNCHANGED <<TABLE_NAME, store, event, rid, lastWrite, nreq, uuids>>

\* variant: the failure text is cached like a translation
TranslationFails_caching(p) ==
  /\ pc[p] = "tr_translate"
  /\ LET l == local[p]
         movie == MergeTranslation(l.movie.val, l.language,
                                   "Translation failed")
         sent == addMovieToDB_send(TABLE_NAME, p, rid[p], movie, l.language,
                                   l.read.ref,
                                   CachedTranslation(l.read.val, l.language))
     IN /\ puts' = puts \cup sent
        /\ log' = [log EXCEPT ![p] = Append(@,
                [call |-> "translated", ok |-> FALSE, text |-> Undef])]
        /\ Finish(p, Response(500,
              [message |-> "Translation service error",
               movie |-> WithTranslated(movie, "Translation failed")]))
  /\ UNCHANGED <<TABLE_NAME, store, sampleMovies, event, rid, local,
                 lastWrite, nreq, uuids>>

\* variant: a failed translation is answered as a success with a placeholder
TranslationFails_lenient(p) ==
  /\ pc[p] = "tr_translate"
  /\ LET movie == local[p].movie.val
     IN /\ log' = [log EXCEPT ![p] = Append(@,
                [call |-> "translated", ok |-> FALSE, text |-> Undef])]
        /\ Finish(p, Response(200,
              [message |-> "Translation successful",
               movie |-> WithTranslated(movie, "Translation failed")]))
  /\ UNCHANGED <<TABLE_NAME, store, sampleMovies, event, rid, local, puts,
                 lastWrite, nreq, uuids>>

\* translateText rejected: lines 457-476
TranslationFails(p) ==
  /\ pc[p] = "tr_translate"
  /\ LET movie == local[p].movie.val
     IN /\ log' = [log EXCEPT ![p] = Append(@,
                [call |-> "translated", ok |-> FALSE, text |-> Undef])]
        /\ Finish(p, Response(500,
              [message |-> "Translation service error",
               movie |-> WithTranslated(movie,
                           <<"Translation failed: ", movie.description>>)]))
  /\ UNCHANGED <<TABLE_NAME, store, sampleMovies, event, rid, local, puts,
                 lastWrite, nreq, uuids>>

\* variant: a body that does not parse is taken as {}
ParseBody_lenient(body) ==
  IF body # Null /\ "json" \in DOMAIN body THEN body.json ELSE EmptyMap

\* JSON.parse(event.body || '{}'): the object, or Null when parse throws
ParseBody(body) ==
  IF body = Null THEN EmptyMap
  ELSE IF "json" \in DOMAIN body THEN body.json
  ELSE Null

\* ------------------------------------------------------ translateText
\* variant: the error of the service is thrown on
translateText_throwing(text, targetLanguage, outcome) ==
  IF ~Truthy(text) \/ Trim(text) = "" THEN [value |-> ""]
  ELSE IF outcome.ok THEN [value |-> TranslatedText(text, targetLanguage)]
  ELSE [thrown |-> outcome.message]

\* what translateText returns (lines 261-302) when the call of the service,
\* if it makes one, ends with outcome
translateText(text, targetLanguage, outcome) ==
  IF ~Truthy(text) \/ Trim(text) = "" THEN [value |-> ""]
  ELSE IF outcome.ok THEN [value |-> TranslatedText(text, targetLanguage)]
  ELSE [value |-> "Translation failed: "
                  \o (IF Truthy(outcome.code) THEN outcome.code \o " - "
                      ELSE "")
                  \o (IF Truthy(outcome.message) THEN outcome.message
                      ELSE "Unknown error")]

\* translateText up to its await (lines 261-286)
TranslateTextCall(p) ==
  /\ pc[p] = "idle" /\ "text" \in DOMAIN local[p]
  /\ LET l == local[p]
     IN IF ~Truthy(l.text) \/ Trim(l.text) = ""
        THEN /\ Finish(p, translateText(l.text, l.targetLanguage,
                                        [ok |-> TRUE]))
             /\ UNCHANGED log
        ELSE /\ pc' = [pc EXCEPT ![p] = "helper_translate"]
             /\ log' = [log EXCEPT ![p] =
                  <<[call |-> "translateText", Text |-> l.text,
                     SourceLanguageCode |-> "auto",
                     TargetLanguageCode |-> l.targetLanguage]>>]
             /\ UNCHANGED resp
  /\ UNCHANGED <<TABLE_NAME, store, sampleMovies, event, rid, local, puts,
                 lastWrite, nreq, uuids>>

\* the call of the service ended: lines 286-301
TranslateTextSettles(p) ==
  /\ pc[p] = "helper_translate"
  /\ \E outcome \in ServiceOutcomes :
       /\ Finish(p, translateText(local[p].text, local[p].targetLanguage,
                                  outcome))
       /\ local' = [local EXCEPT ![p] = local[p] @@ [outcome |-> outcome]]
  /\ UNCHANGED <<TABLE_NAME, store, sampleMovies, event, rid, log, puts,
                 lastWrite, nreq, uuids>>

\* ---------------------------------------------------------------- PUT
\* PUT up to the await of getMovieFromDB (lines 637-653)
StartUpdate(p, e) ==
  /\ e.httpMethod = "PUT"
  /\ Begin(p, e)
  /\ LET category == Attr(e.pathParameters, "category")
         id == Attr(e.pathParameters, "id")
         requestBody == ParseBody(e.body)
     IN IF ~Truthy(category) \/ ~Truthy(id)
        THEN /\ Finish(p, Response(400,
                 [message |-> "Missing category or ID parameter"]))
             /\ local' = [local EXCEPT ![p] = NoLocal]
        ELSE IF requestBody = Null
        THEN /\ Finish(p, Response(400,
                 [message |-> "Invalid request body format"]))
             /\ local' = [local EXCEPT ![p] = NoLocal]
        ELSE /\ pc' = [pc EXCEPT ![p] = "put_get"]
             /\ resp' = [resp EXCEPT ![p] = Null]
             /\ local' = [local EXCEPT ![p] =
                  [category |-> category, id |-> id,
                   requestBody |-> requestBody]]
  /\ log' = [log EXCEPT ![p] = <<>>]
  /\ UNCHANGED <<TABLE_NAME, store, sampleMovies, puts, lastWrite, uuids>>

\* getMovieFromDB returned: lines 653-673, up to the await of
\* updateMovieInDB.  When getMovieFromDB returns null, the second lookup in
\* sampleMovies (line 657) has just failed inside getMovieFromDB, so the
\* branch that awaits addMovieToDB(movie) (line 669) is never taken.
UpdateGet(p) ==
  /\ pc[p] = "put_get"
  /\ \E ok \in BOOLEAN :
       LET l == local[p]
           got == getMovieFromDB(TABLE_NAME, store, sampleMovies[p],
                                 l.category, l.id, ok)
           movie == IF got # Null THEN got
                    ELSE SampleResult(sampleMovies[p], l.category, l.id)
       IN /\ log' = [log EXCEPT ![p] =
                  <<[call |-> "get", table |-> TABLE_NAME # "", ok |-> ok]>>]
          /\ IF movie = Null
             THEN /\ Finish(p, Response(404, [message |-> "Movie not found"]))
                  /\ UNCHANGED local
             ELSE /\ pc' = [pc EXCEPT ![p] = "put_update"]
                  /\ local' = [local EXCEPT ![p] = l @@ [movie |-> movie]]
                  /\ UNCHANGED resp
  /\ UNCHANGED <<TABLE_NAME, store, sampleMovies, event, rid, puts,
                 lastWrite, nreq, uuids>>

\* the keys of updatableFields (lines 210-218)
updatableFields ==
  {"title", "director", "year", "rating", "description", "isAvailable",
   "translations"}

\* variant: a new description also resets the translations map
UpdateAttributes_invalidating(updates) ==
  LET attrs == [k \in (DOMAIN updates) \cap updatableFields |-> updates[k]]
  IN IF "description" \in DOMAIN updates
     THEN attrs @@ [translations |-> EmptyMap]
     ELSE attrs

\* variant: every attribute of the request body is set
UpdateAttributes_unfiltered(updates) == updates

\* the attributes the UpdateExpression sets (lines 224-230)
UpdateAttributes(updates) ==
  [k \in (DOMAIN updates) \cap updatableFields |-> updates[k]]

\* variant: the item under the key is replaced by the named attributes
UpdateItem_replace(tab, category, id, attrs) ==
  (<<category, id>> :> (attrs @@ [category |-> category, id |-> id])) @@ tab

\* dynamoDB.update with SET on the named attributes: the item under the key
\* gets them, and an item that does not exist is created with its key
UpdateItem(tab, category, id, attrs) ==
  LET old == IF <<category, id>> \in DOMAIN tab THEN tab[<<category, id>>]
             ELSE [category |-> category, id |-> id]
  IN (<<category, id>> :> (attrs @@ old)) @@ tab

\* updateMovieInDB resolved: lines 202-258 and 673-700
UpdateWrite(p) ==
  /\ pc[p] = "put_update"
  /\ \E ok \in BOOLEAN :
       LET l == local[p]
           attrs == UpdateAttributes(l.requestBody)
           called == TABLE_NAME # "" /\ DOMAIN attrs # {}
           tab == UpdateItem(store, l.category, l.id, attrs)
           updatedMovie == IF called /\ ok THEN tab[<<l.category, l.id>>]
                           ELSE Null
       IN /\ store' = IF called /\ ok THEN tab ELSE store
          /\ lastWrite' = IF called /\ ok
                          THEN [op |-> "update", by |-> "update",
                                rid |-> rid[p],
                                before |-> Stored(store, l.category, l.id),
                                item |-> updatedMovie,
                                body |-> l.requestBody]
                          ELSE lastWrite
          /\ log' = [log EXCEPT ![p] =
                  IF called
                  THEN Append(@, [call |-> "update", ok |-> ok,
                                  attrs |-> attrs])
                  ELSE @]
          /\ IF updatedMovie = Null
             THEN Finish(p, Response(200,
                    [message |-> "Movie update not saved to database, but this is the updated data",
                     movie |-> Spread(l.movie.val, l.requestBody)]))
             ELSE Finish(p, Response(200,
                    [message |-> "Movie successfully updated",
                     movie |-> updatedMovie]))
  /\ UNCHANGED <<TABLE_NAME, sampleMovies, event, rid, local, puts, nreq,
                 uuids>>

\* ---------------------------------------------------------------- POST
\* variant: the id of an existing record is generated
Uuid_reused(n) == "m1"

\* uuidv4(): the n-th id generated
Uuid(n) ==
  CASE n = 1 -> "uuid-1" [] n = 2 -> "uuid-2" [] n = 3 -> "uuid-3"
    [] n = 4 -> "uuid-4" [] n = 5 -> "uuid-5" [] OTHER -> "uuid-6"

\* new Date().getFullYear()
CurrentYear == 2025

\* variant: isAvailable is requestBody.isAvailable || true
NewMovie_availableOrTrue(movieId, requestBody) ==
  [id |-> movieId,
   category |-> requestBody.category,
   title |-> requestBody.title,
   director |-> IF Truthy(Attr(requestBody, "director"))
                THEN requestBody.director ELSE "Unknown",
   year |-> IF "year" \in DOMAIN requestBody /\ requestBody.year # 0
            THEN requestBody.year ELSE CurrentYear,
   rating |-> IF "rating" \in DOMAIN requestBody /\ requestBody.rating # 0
              THEN requestBody.rating ELSE 0,
   description |-> requestBody.description,
   isAvailable |-> TRUE,
   translations |-> EmptyMap]

\* the record built from the request body (lines 601-613)
NewMovie(movieId, requestBody) ==
  [id |-> movieId,
   category |-> requestBody.category,
   title |-> requestBody.title,
   director |-> IF Truthy(Attr(requestBody, "director"))
                THEN requestBody.director ELSE "Unknown",
   year |-> IF "year" \in DOMAIN requestBody /\ requestBody.year # 0
            THEN requestBody.year ELSE CurrentYear,
   rating |-> IF "rating" \in DOMAIN requestBody /\ requestBody.rating # 0
              THEN requestBody.rating ELSE 0,
   description |-> requestBody.description,
   isAvailable |-> IF "isAvailable" \in DOMAIN requestBody
                   THEN requestBody.isAvailable ELSE TRUE,
   translations |-> EmptyMap]

\* variant: a required field may be the empty string
MissingRequired_undefinedOnly(requestBody) ==
  \/ Attr(requestBody, "title") = Undef
  \/ Attr(requestBody, "category") = Undef
  \/ Attr(requestBody, "description") = Undef

\* !requestBody.title || !requestBody.category || !requestBody.description
MissingRequired(requestBody) ==
  \/ ~Truthy(Attr(requestBody, "title"))
  \/ ~Truthy(Attr(requestBody, "category"))
  \/ ~Truthy(Attr(requestBody, "description"))

\* POST up to the await of addMovieToDB (lines 588-616)
StartCreate(p, e) ==
  /\ e.httpMethod = "POST"
  /\ Begin(p, e)
  /\ LET requestBody == ParseBody(e.body)
     IN IF requestBody = Null
        THEN /\ Finish(p, Response(400,
                 [message |-> "Invalid request body format"]))
             /\ local' = [local EXCEPT ![p] = NoLocal]
             /\ UNCHANGED uuids
        ELSE IF MissingRequired(requestBody)
        THEN /\ Finish(p, Response(400,
                 [message |-> "Title, category, and description are required fields"]))
             /\ local' = [local EXCEPT ![p] = NoLocal]
             /\ UNCHANGED uuids
        ELSE /\ pc' = [pc EXCEPT ![p] = "post_put"]
             /\ resp' = [resp EXCEPT ![p] = Null]
             /\ uuids' = uuids + 1
             /\ local' = [local EXCEPT ![p] =
                  [movie |-> NewMovie(Uuid(uuids + 1), requestBody)]]
  /\ log' = [log EXCEPT ![p] = <<>>]
  /\ UNCHANGED <<TABLE_NAME, store, sampleMovies, puts, lastWrite>>

\* the awaited addMovieToDB resolved: lines 73-90 and 616-625
CreatePut(p) ==
  /\ pc[p] = "post_put"
  /\ \E ok \in BOOLEAN :
       LET movie == local[p].movie
           called == TABLE_NAME # ""
           saveResult == called /\ ok
       IN /\ store' = IF saveResult THEN PutItem(store, movie) ELSE store
          /\ lastWrite' = IF saveResult
                          THEN [op |-> "put", by |-> "create",
                                rid |-> rid[p],
                                before |-> Stored(store, movie.category,
                                                  movie.id),
                                item |-> movie]
                          ELSE lastWrite
          /\ log' = [log EXCEPT ![p] =
                  IF called THEN <<[call |-> "put", ok |-> ok, item |-> movie]>>
                  ELSE <<>>]
          /\ Finish(p, Response(201,
                [message |-> IF saveResult
                             THEN "Movie successfully added to database"
                             ELSE "Movie created but not saved to database",
                 movie |-> movie]))
  /\ UNCHANGED <<TABLE_NAME, sampleMovies, event, rid, local, puts, nreq,
                 uuids>>

\* ---------------------------------------------------------------- GET
\* path.endsWith('/test-translate')
IsTestTranslatePath(path) == Len(path) >= 1 /\ Last(path) = "test-translate"

\* the text translated by default by GET .../test-translate (line 487)
TestText == "zh:test"

\* GET on a path that is not a translation path, up to its first await
\* (lines 480-547 and 567)
StartGet(p, e) ==
  /\ e.httpMethod = "GET" /\ ~IsTranslationPath(e.path)
  /\ Begin(p, e)
  /\ LET q == e.queryStringParameters
         text == IF Truthy(Attr(q, "text")) THEN q.text ELSE TestText
     IN IF IsTestTranslatePath(e.path)
        THEN /\ pc' = [pc EXCEPT ![p] = "get_test"]
             /\ local' = [local EXCEPT ![p] =
                  [text |-> text, target |-> TranslationLanguage(e)]]
             /\ log' = [log EXCEPT ![p] =
                  <<[call |-> "translateText", Text |-> text,
                     SourceLanguageCode |-> "auto",
                     TargetLanguageCode |-> TranslationLanguage(e)]>>]
        ELSE /\ pc' = [pc EXCEPT ![p] =
                  IF Truthy(Attr(q, "id")) THEN "get_id" ELSE "get_list"]
             /\ local' = [local EXCEPT ![p] =
                  [getCategory |-> Attr(q, "category"),
                   getId |-> Attr(q, "id")]]
             /\ log' = [log EXCEPT ![p] = <<>>]
  /\ resp' = [resp EXCEPT ![p] = Null]
  /\ UNCHANGED <<TABLE_NAME, store, sampleMovies, puts, lastWrite, uuids>>

\* the translateText of GET .../test-translate settled (lines 505-536)
TestTranslate(p) ==
  /\ pc[p] = "get_test"
  /\ \E ok \in BOOLEAN :
       LET l == local[p]
       IN IF ok
          THEN Finish(p, Response(200,
                 [message |-> "Test translation request successful",
                  original |-> l.text,
                  translated |-> TranslatedText(l.text, l.target),
                  targetLanguage |-> l.target]))
          ELSE Finish(p, Response(500,
                 [message |-> "Test translation request failed",
                  original |-> l.text, language |-> l.target]))
  /\ UNCHANGED <<TABLE_NAME, store, sampleMovies, event, rid, local, log,
                 puts, lastWrite, nreq, uuids>>

\* getMovieByIdFromDB returned: lines 547-563
GetById(p) ==
  /\ pc[p] = "get_id"
  /\ \E ok \in BOOLEAN :
     \E movie \in getMovieByIdFromDB(TABLE_NAME, store, sampleMovies[p],
                                     local[p].getId, ok) :
       /\ log' = [log EXCEPT ![p] =
               IF TABLE_NAME = "" THEN <<>>
               ELSE <<[call |-> "scan", ok |-> ok]>>]
       /\ IF movie = Null
          THEN Finish(p, Response(404, [message |-> "Movie not found"]))
          ELSE Finish(p, Response(200, [movie |-> movie.val]))
  /\ UNCHANGED <<TABLE_NAME, store, sampleMovies, event, rid, local, puts,
                 lastWrite, nreq, uuids>>

\* getMoviesFromDB returned: lines 567-584; the list is given as the set of
\* its records
GetList(p) ==
  /\ pc[p] = "get_list"
  /\ \E ok \in BOOLEAN :
     \E scanned \in ScanKeys(store) :
       LET category == local[p].getCategory
           found == getMoviesFromDB(TABLE_NAME, store, sampleMovies[p],
                                    category, ok, scanned)
           movies == IF found = {}
                     THEN SampleList(sampleMovies[p], category)
                     ELSE found
       IN /\ log' = [log EXCEPT ![p] =
                  IF TABLE_NAME = "" THEN <<>>
                  ELSE <<[call |-> IF Truthy(category) THEN "query"
                                   ELSE "scan",
                          ok |-> ok]>>]
          /\ Finish(p, Response(200, [movies |-> movies]))
  /\ UNCHANGED <<TABLE_NAME, store, sampleMovies, event, rid, local, puts,
                 lastWrite, nreq, uuids>>

\* ----------------------------------------------------- the other methods
\* OPTIONS (lines 309-315) and the methods the handler does not support
\* (lines 712-716)
StartOther(p, e) ==
  /\ e.httpMethod \notin {"GET", "POST", "PUT"}
  /\ Begin(p, e)
  /\ IF e.httpMethod = "OPTIONS"
     THEN Finish(p, Response(200, EmptyMap))
     ELSE Finish(p, Response(405, [message |-> "Unsupported HTTP method"]))
  /\ local' = [local EXCEPT ![p] = NoLocal]
  /\ log' = [log EXCEPT ![p] = <<>>]
  /\ UNCHANGED <<TABLE_NAME, store, sampleMovies, puts, lastWrite, uuids>>

\* ------------------------------------------------------------- the table
\* the table applies a put that addMovieToDB left in flight
PutApplied(w) ==
  /\ w \in puts /\ w.status = "inflight"
  /\ store' = PutItem(store, w.item)
  /\ puts' = (puts \ {w}) \cup {[w EXCEPT !.status = "applied"]}
  /\ lastWrite' = [op |-> "put", by |-> "translation", rid |-> w.rid,
                   before |-> Stored(store, w.item.category, w.item.id),
                   item |-> w.item, language |-> w.language, ref |-> w.ref]
  /\ UNCHANGED <<TABLE_NAME, sampleMovies, pc, event, rid, local, log, resp,
                 nreq, uuids>>

\* the put is rejected; addMovieToDB catches the error (lines 86-89)
PutRejected(w) ==
  /\ w \in puts /\ w.status = "inflight"
  /\ puts' = (puts \ {w}) \cup {[w EXCEPT !.status = "failed"]}
  /\ UNCHANGED <<TABLE_NAME, store, sampleMovies, pc, event, rid, local, log,
                 resp, lastWrite, nreq, uuids>>

\* ------------------------------------------------------- notions of claims
ScalarFields ==
  {"title", "director", "year", "rating", "description", "isAvailable"}

\* the request of process p is a translation request with category and id
IsTranslation(p) == "language" \in DOMAIN local[p]

\* the record the translation request of p resolved, as it was read
HasRead(p) == IsTranslation(p) /\ "read" \in DOMAIN local[p]
ReadMovie(p) == local[p].read.val

LogIndex(p, c) == {i \in 1..Len(log[p]) : log[p][i].call = c}

\* number of translator calls made for the request of p
TranslatorCalls(p) == Cardinality(LogIndex(p, "translateText"))

\* the request of p has written nothing: no put sent, no write applied
NoStoreWrite(p) ==
  /\ \A w \in puts : w.rid # rid[p]
  /\ \A i \in LogIndex(p, "addMovieToDB") : ~log[p][i].sent
  /\ lastWrite.op # "none" => lastWrite.rid # rid[p]

TranslationsOf(item) ==
  IF "translations" \in DOMAIN item THEN item.translations ELSE EmptyMap

SameAttr(a, b, f) ==
  /\ (f \in DOMAIN a) = (f \in DOMAIN b)
  /\ f \in DOMAIN a => a[f] = b[f]

IsBlank(movie) ==
  \/ "description" \notin DOMAIN movie
  \/ movie.description \in {"", " ", "  "}

Wrote == lastWrite.op # "none"
Overwrote == Wrote /\ lastWrite.before # Null
WroteBack == Wrote /\ lastWrite.by = "translation"
\* the last write is the write-back of a Translate that read the record from
\* the table, over the record the table held
WroteBackOver == WroteBack /\ lastWrite.ref = 0 /\ lastWrite.before # Null

\* some entry of the translations map of a is missing or different in b
EntryChanged(a, b) ==
  \E lang \in DOMAIN TranslationsOf(a) :
    \/ lang \notin DOMAIN TranslationsOf(b)
    \/ TranslationsOf(b)[lang] # TranslationsOf(a)[lang]

\* some entry of the translations map of a has a different value in b
EntryReplaced(a, b) ==
  \E lang \in DOMAIN TranslationsOf(a) \cap DOMAIN TranslationsOf(b) :
    TranslationsOf(b)[lang] # TranslationsOf(a)[lang]

TranslatedDescription(p) == resp[p].body.movie.translated_description

\* ------------------------------------------------------------------- C1
\* C1 (as stated): once a stored record holds a value under
\* translations[lang], no write replaces it by a different value.
C1_WriteOnce ==
  Overwrote => ~EntryReplaced(lastWrite.before, lastWrite.item)

\* C1 (amended): a stored translations[lang] is changed or removed only by an
\* Update whose body has a translations field or by the whole-record
\* write-back of a Translate; and a Translate sends a write-back only when its
\* read found no non-empty entry for its language.
C1_ChangedOnlyByUpdateOrMiss ==
  /\ Overwrote /\ EntryChanged(lastWrite.before, lastWrite.item)
       => \/ lastWrite.op = "update" /\ "translations" \in DOMAIN lastWrite.body
          \/ lastWrite.op = "put" /\ lastWrite.by = "translation"
  /\ \A w \in puts : w.cached \in {Undef, ""}

C1_Witness ==
  /\ WroteBackOver
  /\ EntryReplaced(lastWrite.before, lastWrite.item)

\* ------------------------------------------------------------------- C2
\* C2 (as stated): the write of a Translate leaves the stored title,
\* director, year, rating, description and isAvailable as they were
\* immediately before that write.
C2_TranslateKeepsFields ==
  WroteBackOver
    => \A f \in ScalarFields : SameAttr(lastWrite.before, lastWrite.item, f)

\* ------------------------------------------------------------------- C3
CacheHitResponse(p, text) ==
  /\ resp[p].statusCode = 200
  /\ TranslatedDescription(p) = text
  /\ TranslatorCalls(p) = 0
  /\ NoStoreWrite(p)

\* C3 (as stated): when the record has a non-blank description and its
\* translations map has an entry for the requested language, Translate
\* returns that entry, calls no translator and writes nothing.
C3_CacheHitOnAnyEntry ==
  \A p \in Procs :
    pc[p] = "done" /\ HasRead(p) /\ ~IsBlank(ReadMovie(p))
    /\ local[p].language \in DOMAIN TranslationsOf(ReadMovie(p))
      => CacheHitResponse(p, ReadMovie(p).translations[local[p].language])

\* C3 (amended): the same for an entry that is not the empty string.
C3_CacheHit ==
  \A p \in Procs :
    pc[p] = "done" /\ HasRead(p) /\ ~IsBlank(ReadMovie(p))
    /\ local[p].language \in DOMAIN TranslationsOf(ReadMovie(p))
    /\ ReadMovie(p).translations[local[p].language] # ""
      => CacheHitResponse(p, ReadMovie(p).translations[local[p].language])

C3_Witness ==
  \E p \in Procs :
    /\ pc[p] = "done" /\ HasRead(p) /\ local[p].read.ref = 0
    /\ local[p].language = "fr"
    /\ "fr" \in DOMAIN TranslationsOf(ReadMovie(p))
    /\ resp[p].body.message = "Using cached translation"
    /\ TranslatedDescription(p) = ReadMovie(p).translations["fr"]

\* ------------------------------------------------------------------- C4
\* the write-back of request a has been applied and is the record p read
ReadWriteBackOf(p, a) ==
  \E w \in puts :
    /\ w.rid = a.rid /\ w.status = "applied"
    /\ local[p].read = [ref |-> 0, val |-> w.item]

C5_AddsOneEntry ==
  WroteBackOver
    => TranslationsOf(lastWrite.item) =
         (lastWrite.language :> lastWrite.item.translations[lastWrite.language])
           @@ TranslationsOf(lastWrite.before)

\* ------------------------------------------------------------------- C6
\* two processes handle Translate requests for the same record and language
\* and both found no cached entry
Racing(p, q) ==
  /\ p # q /\ IsTranslation(p) /\ IsTranslation(q)
  /\ local[p].category = local[q].category /\ local[p].id = local[q].id
  /\ local[p].language = local[q].language
  /\ TranslatorCalls(p) >= 1 /\ TranslatorCalls(q) >= 1

\* the request of p, answered with a fresh translation, called addMovieToDB
\* with the whole record it read plus the new entry, and the put was sent
\* when a table is configured
AttemptedPut(p) ==
  \E i \in LogIndex(p, "addMovieToDB") :
    /\ log[p][i].item =
         [translations |->
            (local[p].language :> TranslatedDescription(p))
              @@ TranslationsOf(ReadMovie(p))] @@ ReadMovie(p)
    /\ TABLE_NAME # ""
         => \E w \in puts : w.rid = rid[p] /\ w.item = log[p][i].item

\* C6: two Translate requests for the same (record, lang) that both miss
\* each call the translator once and each attempt a whole-record put; the
\* table holds the item of the write it applied last.
C6_SameKeyRace ==
  /\ \A p, q \in Procs :
       Racing(p, q)
         => /\ TranslatorCalls(p) = 1 /\ TranslatorCalls(q) = 1
            /\ pc[p] = "done" /\ resp[p].statusCode = 200 => AttemptedPut(p)
  /\ Wrote => Stored(store, lastWrite.item.category, lastWrite.item.id)
                = lastWrite.item

C6_Witness ==
  \E p, q \in Procs :
    /\ Racing(p, q) /\ pc[p] = "done" /\ pc[q] = "done"
    /\ \E w \in puts : w.rid = rid[p] /\ w.status = "applied"
    /\ WroteBack /\ lastWrite.rid = rid[q] /\ lastWrite.before # Null
    /\ lastWrite.language = local[q].language
    /\ local[q].language \in DOMAIN TranslationsOf(lastWrite.before)

\* ------------------------------------------------------------------- C7
\* C7: a Translate request calls the translator only after its lookup missed
\* the cache, and calls addMovieToDB and sends a put only after the
\* translator returned the text that the put stores.
C7_LookupCallWrite ==
  \A p \in Procs :
    IsTranslation(p) =>
      /\ \A i \in LogIndex(p, "translateText") :
           /\ i = 2 /\ log[p][1].call = "get" /\ HasRead(p)
           /\ CachedTranslation(local[p].read.val, local[p].language)
                \in {Undef, ""}
           /\ log[p][i].Text = local[p].read.val.description
      /\ \A i \in LogIndex(p, "addMovieToDB") :
           /\ i = 4 /\ log[p][2].call = "translateText"
           /\ log[p][3].call = "translated" /\ log[p][3].ok
           /\ log[p][i].item.translations[local[p].language] = log[p][3].text
      /\ \A w \in puts :
           w.rid = rid[p]
             => /\ LogIndex(p, "addMovieToDB") # {}
                /\ w.item = log[p][4].item

C7_Witness ==
  \E p \in Procs :
    /\ IsTranslation(p) /\ pc[p] = "done"
    /\ \E w \in puts : w.rid = rid[p] /\ w.status = "applied"

\* ------------------------------------------------------------------- C8
TranslatorFailed(p) ==
  \E i \in LogIndex(p, "translated") : ~log[p][i].ok

\* C8: when the translator call fails, the request writes nothing to the
\* table, adds no entry to the record it read, and answers with a
\* translation-service error.
C8_FailureNotCached ==
  \A p \in Procs :
    IsTranslation(p) /\ TranslatorFailed(p) =>
      /\ pc[p] = "done"
      /\ resp[p].statusCode = 500
      /\ resp[p].body.message = "Translation service error"
      /\ NoStoreWrite(p)
      /\ LogIndex(p, "addMovieToDB") = {}
      /\ local[p].movie = local[p].read
      /\ local[p].read.ref # 0
           => sampleMovies[p][local[p].read.ref] = local[p].read.val

C8_Witness ==
  \E p \in Procs :
    /\ IsTranslation(p) /\ TranslatorFailed(p)
    /\ resp[p].statusCode = 500
    /\ local[p].read.ref = 0

\* ------------------------------------------------------------------- C9
\* C9: for a record whose description is missing, empty or only whitespace,
\* Translate answers 200 with the translated text "", calls no translator
\* and writes nothing, also when translations[lang] is present.
C9_EmptyDescription ==
  \A p \in Procs :
    pc[p] = "done" /\ HasRead(p) /\ IsBlank(ReadMovie(p))
      => /\ CacheHitResponse(p, "")
         /\ LogIndex(p, "addMovieToDB") = {}

C9_Witness ==
  \E p \in Procs :
    /\ pc[p] = "done" /\ HasRead(p)
    /\ "description" \in DOMAIN ReadMovie(p)
    /\ ReadMovie(p).description = " "
    /\ local[p].language \in DOMAIN TranslationsOf(ReadMovie(p))
    /\ ReadMovie(p).translations[local[p].language] # ""
    /\ resp[p].statusCode = 200 /\ TranslatedDescription(p) = ""

\* ------------------------------------------------------------------ C10
\* C10: once the translator has returned a text on a cache miss, the
\* response is 200 "Translation successful" with that text, whether the put
\* was never sent, is in flight, was applied or was rejected.
C10_ReadSucceedsAnyway ==
  \A p \in Procs :
    IsTranslation(p) =>
      \A i \in LogIndex(p, "translated") :
        log[p][i].ok
          => /\ pc[p] = "done"
             /\ resp[p].statusCode = 200
             /\ resp[p].body.message = "Translation successful"
             /\ TranslatedDescription(p) = log[p][i].text

C10_Witness ==
  \E p \in Procs :
    /\ IsTranslation(p) /\ pc[p] = "done"
    /\ resp[p].body.message = "Translation successful"
    /\ \E w \in puts : w.rid = rid[p] /\ w.status = "failed"

\* ------------------------------------------------------------------ C11
\* the request of p was answered with the text the translator returned for it
FreshSuccess(p) ==
  /\ resp[p].statusCode = 200
  /\ resp[p].body.message = "Translation successful"
  /\ \E i \in LogIndex(p, "translated") :
       log[p][i].ok /\ TranslatedDescription(p) = log[p][i].text

\* the lookup of the request of p reached the table without error
ReadTable(p) ==
  /\ Len(log[p]) >= 1 /\ log[p][1].call = "get"
  /\ log[p][1].table /\ log[p][1].ok

\* the write-back of the answered request a was sent and was rejected or is
\* still pending
LostWriteBack(a) ==
  \E w \in puts : w.rid = a.rid /\ w.status \in {"failed", "inflight"}

\* C11 (as stated): while the table has applied no write and the write-back
\* of an earlier fresh translation was rejected or is still pending, a
\* Translate issued after it for the same record and language, whose lookup
\* reaches the table, misses the cache: it calls the translator once, and
\* answers with the fresh text unless that call fails.
C11_LostWriteRetranslates ==
  \A p \in Procs :
    pc[p] = "done" /\ IsTranslation(p) /\ ReadTable(p) /\ ~Wrote
      => \A a \in local[p].after :
           LostWriteBack(a)
             => /\ TranslatorCalls(p) = 1
                /\ TranslatorFailed(p) \/ FreshSuccess(p)

\* ------------------------------------------------------------------ C12
\* the put of request r is in flight and the request has been answered with
\* the text the put carries under the requested language
AnsweredAndPending(r) ==
  \E w \in puts :
    /\ w.rid = r /\ w.status = "inflight"
    /\ \E p \in Procs :
         /\ rid[p] = r /\ pc[p] = "done" /\ FreshSuccess(p)
         /\ w.language = local[p].language
         /\ w.language \in DOMAIN TranslationsOf(w.item)
         /\ w.item.translations[w.language] = TranslatedDescription(p)

\* the table has just applied the put of request r and holds its text under
\* translations[lang], or it has rejected the put
StoredOrRejected(r) ==
  \E w \in puts :
    /\ w.rid = r
    /\ \/ w.status = "failed"
       \/ /\ w.status = "applied"
          /\ lastWrite.op = "put" /\ lastWrite.rid = r
          /\ Stored(store, w.item.category, w.item.id) # Null
          /\ w.language \in DOMAIN
               TranslationsOf(Stored(store, w.item.category, w.item.id))
          /\ Stored(store, w.item.category, w.item.id).translations[w.language]
               = w.item.translations[w.language]

\* C12: the put of a Translate that was answered with a fresh translation
\* carries the returned text under translations[lang] from the moment the
\* response is produced; and, the pending put being scheduled fairly, it is
\* eventually rejected by the table or applied, and when applied the stored
\* record holds that text under translations[lang].
C12_EventualCaching ==
  /\ [](\A p \in Procs :
          pc[p] = "done" /\ IsTranslation(p) /\ FreshSuccess(p)
          /\ TABLE_NAME # ""
            => \E w \in puts :
                 /\ w.rid = rid[p]
                 /\ w.language \in DOMAIN TranslationsOf(w.item)
                 /\ w.item.translations[w.language] = TranslatedDescription(p))
  /\ \A r \in 1..MaxRequests : AnsweredAndPending(r) ~> StoredOrRejected(r)

C12_Witness ==
  \E w \in puts :
    /\ w.status = "applied" /\ w.ref = 0 /\ w.cached = Undef
    /\ lastWrite.op = "put" /\ lastWrite.rid = w.rid
    /\ lastWrite.before # Null
    /\ w.language \notin DOMAIN TranslationsOf(lastWrite.before)
    /\ store[<<w.item.category, w.item.id>>].translations[w.language]
         = w.item.translations[w.language]

\* ------------------------------------------------------------------ C13
\* the table held no record under the key the request of p looked up
ReadFoundNothing(p) ==
  /\ ReadTable(p)
  /\ ("read" \in DOMAIN local[p] => local[p].read.ref # 0)

\* C13 (as stated): a Translate whose key the table holds no record under
\* answers 404, calls no translator and writes nothing.
C13_TranslateAbsentKey ==
  \A p \in Procs :
    pc[p] = "done" /\ IsTranslation(p) /\ ReadFoundNothing(p)
      => /\ resp[p].statusCode = 404
         /\ TranslatorCalls(p) = 0
         /\ NoStoreWrite(p)

\* ------------------------------------------------------------------ C14
\* C14 (as stated): the sample records of every handler process are the ones
\* the module was loaded with.
C14_SampleMoviesFixed ==
  \A p \in Procs : sampleMovies[p] = sampleMoviesInit

\* ------------------------------------------------------------------ C15
\* C15 (as stated): the request whose write the table applied last came in
\* on a method that requires an API key.
C15_WritesNeedApiKey ==
  Wrote => \A p \in Procs :
             rid[p] = lastWrite.rid
               => apiKeyRequired(event[p].httpMethod, event[p].path)

\* ------------------------------------------------------------------ C16
IsCreate(p) == event[p] # Null /\ event[p].httpMethod = "POST"

\* the body is not a JSON object, or its title, category or description is
\* missing or the empty string
LacksRequired(body) ==
  \/ body = Null
  \/ "json" \notin DOMAIN body
  \/ \E f \in {"title", "category", "description"} :
       f \notin DOMAIN body.json \/ body.json[f] = ""

\* C16: a Create whose payload lacks title, category or description is
\* answered 400 at once, with no call to the table made for it and no write
\* of the table owed to it.
C16_CreateValidation ==
  \A p \in Procs :
    IsCreate(p) /\ LacksRequired(event[p].body)
      => /\ pc[p] = "done"
         /\ resp[p].statusCode = 400
         /\ log[p] = <<>>
         /\ NoStoreWrite(p)

C16_Witness ==
  \E p \in Procs :
    /\ IsCreate(p) /\ "json" \in DOMAIN event[p].body
    /\ event[p].body.json.title = ""
    /\ TABLE_NAME # "" /\ store # EmptyMap
    /\ resp[p].statusCode = 400
    /\ resp[p].body.message
         = "Title, category, and description are required fields"

\* ------------------------------------------------------------------ C17
Whitelist ==
  {"title", "director", "year", "rating", "description", "isAvailable",
   "translations"}

IsUpdate(p) == event[p] # Null /\ event[p].httpMethod = "PUT"

\* the body is absent or a JSON object without any whitelisted field
NoWhitelisted(body) ==
  \/ body = Null
  \/ "json" \in DOMAIN body /\ (DOMAIN body.json) \cap Whitelist = {}

\* C17: an Update whose payload has no whitelisted field sends no update to
\* the table and no write of the table is owed to it; it is answered 404, or
\* 200 with the "not saved" message, never as a stored update.
C17_UpdateNoOp ==
  \A p \in Procs :
    IsUpdate(p) /\ NoWhitelisted(event[p].body)
      => /\ LogIndex(p, "update") = {}
         /\ NoStoreWrite(p)
         /\ pc[p] = "done"
              => \/ resp[p].statusCode = 404
                 \/ /\ resp[p].statusCode = 200
                    /\ resp[p].body.message = "Movie update not saved to database, but this is the updated data"

C17_Witness ==
  \E p \in Procs :
    /\ IsUpdate(p) /\ pc[p] = "done" /\ TABLE_NAME # ""
    /\ event[p].body # Null
    /\ "unknown" \in DOMAIN event[p].body.json
    /\ resp[p].statusCode = 200
    /\ Stored(store, "action", "m1") # Null

\* ------------------------------------------------------------------ C18
\* C18: an update the table applied sets exactly the whitelisted attributes
\* of the payload, each to the payload's value, and keeps every other
\* attribute of the record as it was (of a record that did not exist: its
\* key); every stored record has the category and id of its key.
C18_UpdateWhitelist ==
  /\ lastWrite.op = "update" =>
       LET body == lastWrite.body
           new == lastWrite.item
           old == IF lastWrite.before # Null THEN lastWrite.before
                  ELSE [category |-> new.category, id |-> new.id]
       IN \A f \in (DOMAIN new) \cup (DOMAIN old) :
            IF f \in Whitelist \cap DOMAIN body
            THEN f \in DOMAIN new /\ new[f] = body[f]
            ELSE SameAttr(old, new, f)
  /\ \A k \in DOMAIN store : store[k].category = k[1] /\ store[k].id = k[2]

C18_Witness ==
  /\ lastWrite.op = "update" /\ lastWrite.before # Null
  /\ "id" \in DOMAIN lastWrite.body
  /\ lastWrite.item.title = "T2" /\ lastWrite.item.id = "m1"
  /\ lastWrite.item.description = lastWrite.before.description

\* ------------------------------------------------------------------ C19
\* C19 (as stated): an Update whose lookup finds no record under its key in
\* the table is answered 404 and sends no update to the table, so it creates
\* no record.
C19_UpdateAbsentKey ==
  \A p \in Procs :
    (/\ IsUpdate(p) /\ pc[p] = "done" /\ ReadTable(p)
     /\ "movie" \in DOMAIN local[p] => local[p].movie.ref # 0)
      => /\ resp[p].statusCode = 404
         /\ LogIndex(p, "update") = {}

\* ------------------------------------------------------------------ C20
\* the Create of p is answered as saved in this step
CreateSaved(p) ==
  /\ pc[p] = "post_put" /\ pc'[p] = "done"
  /\ resp'[p].body.message = "Movie successfully added to database"

\* C20: the step in which a Create is answered as saved adds one record to
\* the table, under a key the table did not hold, with the payload's
\* category, title and description and an empty translations map, and leaves
\* the records the table held as they were.
C20_CreateAddsOne ==
  [][\A p \in Procs :
       CreateSaved(p) =>
         LET payload == event[p].body.json
             added == (DOMAIN store') \ (DOMAIN store)
         IN /\ Cardinality(added) = 1
            /\ DOMAIN store \subseteq DOMAIN store'
            /\ \A k \in DOMAIN store : store'[k] = store[k]
            /\ \A k \in added :
                 /\ store'[k].category = payload.category
                 /\ store'[k].title = payload.title
                 /\ store'[k].description = payload.description
                 /\ store'[k].translations = EmptyMap
                 /\ k = <<store'[k].category, store'[k].id>>
                 /\ store'[k] = resp'[p].body.movie]_vars

C20_Witness ==
  /\ lastWrite.op = "put" /\ lastWrite.by = "create"
  /\ Stored(store, "action", "m1") # Null
  /\ Cardinality(DOMAIN store) = 2
  /\ \E p \in Procs :
       /\ pc[p] = "done" /\ rid[p] = lastWrite.rid
       /\ resp[p].statusCode = 201
       /\ Stored(store, "action", resp[p].body.movie.id) = resp[p].body.movie

\* the Create of process p has been answered after the put sent for it failed
CreateWriteFailed(p) ==
  /\ IsCreate(p) /\ pc[p] = "done"
  /\ log[p] # <<>> /\ log[p][1].call = "put" /\ ~log[p][1].ok

\* C21: a Create whose write of the table fails is answered with a failure
\* outcome (a status of 400 or more), not as a creation.
C21_CreateFailureReported ==
  \A p \in Procs : CreateWriteFailed(p) => resp[p].statusCode >= 400

\* the Translate of process p has read, from the table, a record that holds
\* an entry for the requested language
ReadCachedEntry(p) ==
  /\ HasRead(p) /\ local[p].read.ref = 0
  /\ "translations" \in DOMAIN ReadMovie(p)
  /\ local[p].language \in DOMAIN ReadMovie(p).translations

\* C27: a Translate that reads a record holding an entry for the language
\* makes no translator call and, once answered, returns that entry; and a
\* write of the table other than an Update whose payload has a translations
\* field removes no entry of the record it overwrites.
C27_NoInvalidation ==
  /\ \A p \in Procs :
       ReadCachedEntry(p) =>
         /\ TranslatorCalls(p) = 0
         /\ pc[p] = "done" =>
              /\ resp[p].statusCode = 200
              /\ TranslatedDescription(p)
                   = ReadMovie(p).translations[local[p].language]
  /\ (/\ Overwrote
      /\ ~(lastWrite.op = "update" /\ "translations" \in DOMAIN lastWrite.body))
     => \A l \in DOMAIN TranslationsOf(lastWrite.before) :
          l \in DOMAIN TranslationsOf(lastWrite.item)

\* the language a translation request names, "en" when it names none
RequestedLanguage(e) ==
  IF "language" \in DOMAIN e.queryStringParameters
     /\ e.queryStringParameters.language # ""
  THEN e.queryStringParameters.language
  ELSE "en"

\* the Translate of process p has read a record with a non-blank description
\* and no entry for the requested language
ReadMiss(p) ==
  /\ HasRead(p)
  /\ ~IsBlank(ReadMovie(p))
  /\ ~("translations" \in DOMAIN ReadMovie(p)
       /\ RequestedLanguage(event[p]) \in DOMAIN ReadMovie(p).translations
       /\ ReadMovie(p).translations[RequestedLanguage(event[p])] # "")

\* C28: a Translate that reads a record with a non-blank description and no
\* entry for the language calls the translator exactly once, with the
\* description as read, source "auto" and the requested language ("en" when
\* the request names none) as target; answered after the translator
\* succeeded, it returns the translator's result as the translated text.
C28_TranslatorInvocation ==
  \A p \in Procs :
    ReadMiss(p) =>
      /\ TranslatorCalls(p) = 1
      /\ \A i \in LogIndex(p, "translateText") :
           /\ log[p][i].Text = ReadMovie(p).description
           /\ log[p][i].SourceLanguageCode = "auto"
           /\ log[p][i].TargetLanguageCode = RequestedLanguage(event[p])
      /\ (pc[p] = "done" /\ resp[p].statusCode = 200) =>
           TranslatedDescription(p)
             = TranslatedText(ReadMovie(p).description,
                              RequestedLanguage(event[p]))

C28_Witness ==
  \E p \in Procs :
    /\ ReadMiss(p) /\ pc[p] = "done" /\ resp[p].statusCode = 200
    /\ "language" \notin DOMAIN event[p].queryStringParameters
    /\ local[p].read.ref = 0

\* the request of process p is GET /movies
IsGet(p) ==
  /\ event[p] # Null
  /\ event[p].httpMethod = "GET" /\ event[p].path = <<"movies">>

Query(p) == event[p].queryStringParameters

\* process p has answered a List, a GET /movies without an id
ListAnswered(p) ==
  IsGet(p) /\ "id" \notin DOMAIN Query(p) /\ pc[p] = "done"

\* process p has answered a Get that supplies an id and no category
GetByIdAnswered(p) ==
  /\ IsGet(p) /\ pc[p] = "done"
  /\ "id" \in DOMAIN Query(p) /\ "category" \notin DOMAIN Query(p)

\* the call of the table made for the request of p failed / succeeded
ReadFailed(p) == log[p] # <<>> /\ ~log[p][1].ok
ReadSucceeded(p) == log[p] # <<>> /\ log[p][1].ok

\* the table holds record m as it is
Holds(m) == Stored(store, m.category, m.id) = m

\* C23: a List whose call of the table fails is answered 200 with an empty
\* list, and every record a List returns is a record the table holds.
C23_ListOnlyStored ==
  \A p \in Procs :
    ListAnswered(p) =>
      /\ resp[p].statusCode = 200
      /\ ReadFailed(p) => resp[p].body.movies = {}
      /\ \A m \in resp[p].body.movies : Holds(m)

\* C25: every record returned by a List with a category has that category,
\* and when the table holds a record under its key, it is that record.
C25_ListByCategory ==
  \A p \in Procs :
    (ListAnswered(p) /\ "category" \in DOMAIN Query(p)) =>
      \A m \in resp[p].body.movies :
        /\ m.category = Query(p).category
        /\ Stored(store, m.category, m.id) # Null => Holds(m)

\* the values of the year and isAvailable parameters
YearOf(s) == CASE s = "2020" -> 2020 [] s = "1999" -> 1999 [] OTHER -> 0
BoolOf(s) == s = "true"

\* record m satisfies the filters of query q
SatisfiesFilters(m, q) ==
  /\ "year" \in DOMAIN q =>
       "year" \in DOMAIN m /\ m.year = YearOf(q.year)
  /\ "director" \in DOMAIN q =>
       "director" \in DOMAIN m /\ m.director = q.director
  /\ "isAvailable" \in DOMAIN q =>
       "isAvailable" \in DOMAIN m /\ m.isAvailable = BoolOf(q.isAvailable)

\* C26: every record a List returns satisfies the year, director and
\* isAvailable filters of the request.
C26_ListFilters ==
  \A p \in Procs :
    ListAnswered(p) =>
      \A m \in resp[p].body.movies : SatisfiesFilters(m, Query(p))

\* the records of the table with the given id
WithId(id) == {store[k] : k \in {k \in DOMAIN store : k[2] = id}}

\* C30: a Get by id alone whose scan of the table succeeded returns one of
\* the stored records with that id when there is one, and is answered 404
\* when there is none.
C30_GetById ==
  \A p \in Procs :
    (GetByIdAnswered(p) /\ ReadSucceeded(p)) =>
      IF WithId(Query(p).id) # {}
      THEN /\ resp[p].statusCode = 200
           /\ resp[p].body.movie \in WithId(Query(p).id)
      ELSE resp[p].statusCode = 404

\* the lookup by (category, id), or by id alone, made for the request that
\* process p has answered called the table and the call failed
LookupFailed(p) ==
  /\ pc[p] = "done" /\ log[p] # <<>>
  /\ \/ log[p][1].call = "get" /\ log[p][1].table /\ ~log[p][1].ok
     \/ /\ log[p][1].call = "scan" /\ ~log[p][1].ok
        /\ "id" \in DOMAIN Query(p)

\* C22: a Get, Update or Translate whose lookup of the table failed is
\* answered 404 and has called neither the translator nor a write of the
\* table.
C22_LookupErrorIsNotFound ==
  \A p \in Procs :
    LookupFailed(p) =>
      /\ resp[p].statusCode = 404
      /\ Len(log[p]) = 1
      /\ NoStoreWrite(p)

\* the awaits of the handler
Awaits ==
  {"tr_get", "tr_translate", "put_get", "put_update", "post_put",
   "get_test", "get_id", "get_list"}

\* the kind of outcome a status code stands for
OutcomeKind(status) ==
  CASE status \in {200, 201} -> "success"
    [] status = 404 -> "not-found"
    [] status \in {400, 405} -> "validation-error"
    [] status = 500 -> "service-error"
    [] OTHER -> "none"

\* a handler is idle, at one of its awaits, or has returned; it has returned
\* a response of one of the four kinds, and none before it returns
WellTyped ==
  \A p \in Procs :
    /\ pc[p] \in {"idle", "done"} \cup Awaits
    /\ pc[p] = "done" =>
         /\ resp[p] # Null
         /\ OutcomeKind(resp[p].statusCode) # "none"
    /\ pc[p] \in Awaits => resp[p] = Null

\* C24: whatever the request and whichever calls fail, no error leaves the
\* handler, and the handler of every request comes to return one response
\* of kind success, not-found, validation-error or service-error.
C24_WellTypedOutcome ==
  /\ []WellTyped
  /\ \A p \in Procs : (pc[p] \in Awaits) ~> (pc[p] = "done")

\* the outer catch of the handler has answered
C24_Witness ==
  \E p \in Procs :
    /\ pc[p] = "done" /\ resp[p].statusCode = 200
    /\ DOMAIN resp[p].body = {"message", "movies"}

\* the body is not JSON
MalformedBody(e) == e.body # Null /\ "json" \notin DOMAIN e.body

\* the path parameters lack the category or the id
LacksKey(e) ==
  "category" \notin DOMAIN e.pathParameters \/ "id" \notin DOMAIN e.pathParameters

\* a Create or Update with a body that is not JSON, an Update without the
\* category or the id, a Translate without them in its parameters and its
\* path
Malformed(e) ==
  \/ e.httpMethod \in {"POST", "PUT"} /\ MalformedBody(e)
  \/ e.httpMethod = "PUT" /\ LacksKey(e)
  \/ /\ e.httpMethod = "GET" /\ e.path[Len(e.path)] = "translation"
     /\ LacksKey(e) /\ Len(e.path) < 4

\* C29: a malformed or incomplete Create, Update or Translate is answered
\* 400 at once, with no call of the table or of the translator made for it
\* and no write of the table owed to it.
C29_MalformedTouchesNothing ==
  \A p \in Procs :
    (event[p] # Null /\ Malformed(event[p])) =>
      /\ pc[p] = "done"
      /\ resp[p].statusCode = 400
      /\ log[p] = <<>>
      /\ NoStoreWrite(p)

C29_Witness ==
  \E p \in Procs :
    /\ event[p] # Null /\ event[p].httpMethod = "PUT"
    /\ MalformedBody(event[p]) /\ ~LacksKey(event[p])
    /\ Stored(store, event[p].pathParameters.category,
              event[p].pathParameters.id) # Null
    /\ pc[p] = "done"

\* the Create of process p has been answered as saved
CreateStored(p) ==
  /\ IsCreate(p) /\ pc[p] = "done" /\ resp[p].statusCode = 201
  /\ resp[p].body.message = "Movie successfully added to database"

\* the payload of the request of p and the record stored for it
Payload(p) == event[p].body.json
Created(p) == Stored(store, Payload(p).category, resp[p].body.movie.id)

\* C34: the record a valid Create stores has director "Unknown" when the
\* payload gives none and the given director otherwise, rating 0 when the
\* payload gives none, isAvailable true when the payload does not specify
\* it and the specified value, false included, when it does.
C34_CreateDefaults ==
  \A p \in Procs :
    CreateStored(p) =>
      /\ Created(p) # Null
      /\ Created(p).director =
           (IF "director" \in DOMAIN Payload(p) /\ Payload(p).director # ""
            THEN Payload(p).director ELSE "Unknown")
      /\ "rating" \notin DOMAIN Payload(p) => Created(p).rating = 0
      /\ Created(p).isAvailable =
           (IF "isAvailable" \in DOMAIN Payload(p)
            THEN Payload(p).isAvailable ELSE TRUE)

C34_Witness ==
  \E p \in Procs :
    /\ CreateStored(p)
    /\ "director" \notin DOMAIN Payload(p)
    /\ "rating" \notin DOMAIN Payload(p)
    /\ "isAvailable" \in DOMAIN Payload(p) /\ ~Payload(p).isAvailable
    /\ ~Created(p).isAvailable

\* the step in which the Update of process p is answered 200 with a record
UpdateAnswersRecord(p) ==
  /\ IsUpdate(p) /\ pc[p] = "put_update" /\ pc'[p] = "done"
  /\ resp'[p].statusCode = 200 /\ "movie" \in DOMAIN resp'[p].body

\* C33: when an Update is answered with a success carrying a record, that
\* record is the record the table holds under (category, id) after the
\* step.
C33_UpdateResponseIsStored ==
  [][\A p \in Procs :
       UpdateAnswersRecord(p) =>
         Stored(store', event[p].pathParameters.category,
                event[p].pathParameters.id) = resp'[p].body.movie]_vars

\* C31: a List without a category returns at most 50 records, however many
\* records the table holds.
C31_ListPageCap ==
  \A p \in Procs :
    (ListAnswered(p) /\ "category" \notin DOMAIN Query(p)) =>
      Cardinality(resp[p].body.movies) <= 50

\* a List without a category answered from a table of more than 50 records
C31_Witness ==
  \E p \in Procs :
    /\ ListAnswered(p) /\ "category" \notin DOMAIN Query(p)
    /\ ReadSucceeded(p)
    /\ Cardinality(DOMAIN store) > 50
    /\ Cardinality(resp[p].body.movies) = 50

\* the operation that is to handle request e
Operation(e) ==
  CASE e.httpMethod = "GET" /\ e.path[Len(e.path)] = "translation" ->
         "Translate"
    [] e.httpMethod = "GET" /\ e.path[Len(e.path)] # "translation"
       /\ "id" \in DOMAIN e.queryStringParameters -> "GetById"
    [] e.httpMethod = "GET" /\ e.path[Len(e.path)] # "translation"
       /\ "id" \notin DOMAIN e.queryStringParameters -> "List"
    [] e.httpMethod = "POST" -> "Create"
    [] e.httpMethod = "PUT" -> "Update"
    [] e.httpMethod = "OPTIONS" -> "Options"
    [] OTHER -> "Unsupported"

\* process p receives a request in this step
Receives(p) == rid'[p] # rid[p]

\* where the step that receives a request leaves the handler, per operation:
\* at the first await of the operation, or returned with its validation
\* error
EntersOperation(p, op) ==
  CASE op = "Translate" ->
         \/ pc'[p] = "tr_get"
         \/ /\ pc'[p] = "done" /\ resp'[p].statusCode = 400
            /\ resp'[p].body.message = "Invalid translation request path, missing category or ID parameter"
    [] op = "GetById" -> pc'[p] = "get_id"
    [] op = "List" -> pc'[p] = "get_list"
    [] op = "Create" ->
         \/ pc'[p] = "post_put"
         \/ /\ pc'[p] = "done" /\ resp'[p].statusCode = 400
            /\ resp'[p].body.message \in
                 {"Invalid request body format",
                  "Title, category, and description are required fields"}
    [] op = "Update" ->
         \/ pc'[p] = "put_get"
         \/ /\ pc'[p] = "done" /\ resp'[p].statusCode = 400
            /\ resp'[p].body.message \in
                 {"Invalid request body format",
                  "Missing category or ID parameter"}
    [] op = "Options" -> pc'[p] = "done" /\ resp'[p].statusCode = 200
    [] op = "Unsupported" ->
         /\ pc'[p] = "done" /\ resp'[p].statusCode = 405
         /\ log'[p] = <<>> /\ store' = store /\ puts' = puts

\* C32: the step that receives a request enters the operation that the
\* method, the path and the id parameter determine, and a request with an
\* unsupported method is answered 405 with no call of the table or of the
\* translator.
C32_Dispatch ==
  [][\A p \in Procs :
       Receives(p) => EntersOperation(p, Operation(event'[p]))]_vars

\* the text is absent, empty or made of whitespace
BlankText(t) == t \in {Undef, "", " ", "  "}

\* C35: translateText returns "" for a blank text without calling the
\* service, the text the service produced when the call succeeds, and, when
\* the call fails, a string that starts with "Translation failed:"; it
\* always returns a value.
C35_TranslateTextHelper ==
  \A p \in Procs :
    pc[p] = "done" =>
      /\ "value" \in DOMAIN resp[p]
      /\ IF BlankText(local[p].text)
         THEN resp[p].value = "" /\ log[p] = <<>>
         ELSE /\ Len(log[p]) = 1
              /\ IF local[p].outcome.ok
                 THEN resp[p].value =
                        TranslatedText(local[p].text, local[p].targetLanguage)
                 ELSE /\ Len(resp[p].value) >= 19
                      /\ SubSeq(resp[p].value, 1, 19) = "Translation failed:"

\* the service failed with an error that has neither code nor message
C35_Witness ==
  \E p \in Procs :
    /\ pc[p] = "done" /\ ~BlankText(local[p].text)
    /\ ~local[p].outcome.ok
    /\ resp[p].value = "Translation failed: Unknown error"

\* ---------------------------------------------------------- specification
Next ==
  \/ \E p \in Procs, e \in Events : StartTranslation(p, e)
  \/ \E p \in Procs : TranslationGet(p)
  \/ \E p \in Procs : TranslationSucceeds(p)
  \/ \E p \in Procs : TranslationFails(p)
  \/ \E p \in Procs, e \in Events : StartUpdate(p, e)
  \/ \E p \in Procs : UpdateGet(p)
  \/ \E p \in Procs : UpdateWrite(p)
  \/ \E p \in Procs, e \in Events : StartCreate(p, e)
  \/ \E p \in Procs : CreatePut(p)
  \/ \E w \in puts : PutApplied(w)
  \/ \E w \in puts : PutRejected(w)

Spec == Init /\ [][Next]_vars

\* a put that addMovieToDB has sent reaches the table
LiveSpec == Spec /\ WF_vars(\E w \in puts : PutApplied(w))

\* the GET requests that are not translation requests
ReadNext ==
  \/ \E p \in Procs, e \in ReadEvents : StartGet(p, e)
  \/ \E p \in Procs : GetById(p)
  \/ \E p \in Procs : GetList(p)
  \/ \E p \in Procs : TestTranslate(p)

ReadSpec == ReadInit /\ [][ReadNext]_vars

\* the whole handler, on requests of every kind
ApiNext ==
  \/ \E p \in Procs, e \in ApiEvents : StartTranslation(p, e)
  \/ \E p \in Procs : TranslationGet(p)
  \/ \E p \in Procs : TranslationSucceeds(p)
  \/ \E p \in Procs : TranslationFails(p)
  \/ \E p \in Procs, e \in ApiEvents : StartUpdate(p, e)
  \/ \E p \in Procs : UpdateGet(p)
  \/ \E p \in Procs : UpdateWrite(p)
  \/ \E p \in Procs, e \in ApiEvents : StartCreate(p, e)
  \/ \E p \in Procs : CreatePut(p)
  \/ \E p \in Procs, e \in ApiEvents : StartGet(p, e)
  \/ \E p \in Procs : GetById(p)
  \/ \E p \in Procs : GetList(p)
  \/ \E p \in Procs : TestTranslate(p)
  \/ \E p \in Procs, e \in ApiEvents : StartOther(p, e)
  \/ \E w \in puts : PutApplied(w)
  \/ \E w \in puts : PutRejected(w)

\* the promise the handler of process p awaits settles
Settle(p) ==
  \/ TranslationGet(p) \/ TranslationSucceeds(p) \/ TranslationFails(p)
  \/ UpdateGet(p) \/ UpdateWrite(p) \/ CreatePut(p)
  \/ GetById(p) \/ GetList(p) \/ TestTranslate(p)

\* every call of the AWS SDK that the handler awaits resolves or rejects
ApiSpec == Init /\ [][ApiNext]_vars /\ \A p \in Procs : WF_vars(Settle(p))

\* Creates with every choice of the optional fields
CreateNext ==
  \/ \E p \in Procs, e \in DefaultsEvents : StartCreate(p, e)
  \/ \E p \in Procs : CreatePut(p)

CreateSpec == Init /\ [][CreateNext]_vars

\* Lists of a table with many records
PageNext ==
  \/ \E p \in Procs, e \in PageEvents : StartGet(p, e)
  \/ \E p \in Procs : GetList(p)

PageSpec == PageInit /\ [][PageNext]_vars

\* calls of translateText
HelperNext ==
  \/ \E p \in Procs : TranslateTextCall(p)
  \/ \E p \in Procs : TranslateTextSettles(p)

HelperSpec == HelperInit /\ [][HelperNext]_vars

====
